---- MODULE Spec2Model ----
(***************************************************************************)
(* A model of the CommandLine / UserInput line editor and command          *)
(* dispatcher (src/src/CommandLine.cpp, src/src/UserInput.cpp).            *)
(*                                                                         *)
(* Characters are their ASCII codes and a String is a sequence of codes.   *)
(* run() is modelled at the granularity of its loop: one step for the      *)
(* entry block, one step per byte read from the stream, one step for the   *)
(* exit taken when the stream has nothing available.  The stream is an     *)
(* external collaborator: bytes arrive on it (StreamReceive) at any time.  *)
(***************************************************************************)
EXTENDS Integers, Sequences, FiniteSets, TLC

VARIABLES
    handlers,           \* commandHandler_t handlers[]: the slots written so far, slot ix at ix + 1
    cmds,               \* String cmds[]: the slots written so far, slot ix at ix + 1
    defaultHandler,     \* handler used when the command is not recognized
    echoing,            \* whether user input is echoed
    handlerCount,       \* count of registered command handlers
    commandLine,        \* where user input is accumulated
    lastCommandLine,    \* the previous command line, if any
    newCmd,             \* true after a command is processed and before more input
    avail,              \* the stream: bytes received and not yet read
    pc,                 \* position of the sketch: "idle", inside "run", or "crashed"
    out,                \* bytes the library wrote to the stream in the last step
    called,             \* handler invocations made by the last step
    op,                 \* the operation or run() step taken last
    ret,                \* what the last step returned to its caller
    touched,            \* table slots the last step read or wrote
    answer,             \* the last step's accessor call, if any: function, index, String
                        \* returned, and whether it came right after another accessor call
    accepted,           \* the line accepted last and the invocations it caused, if any
    since               \* what was done since that line was accepted

vars == <<handlers, cmds, defaultHandler, echoing, handlerCount, commandLine,
          lastCommandLine, newCmd, avail, pc, out, called, op, ret, touched,
          answer, accepted, since>>

table == <<handlers, cmds, handlerCount>>
buffers == <<commandLine, lastCommandLine>>

----------------------------------------------------------------------------
(* Program constants *)

CMD_MAX_HANDLERS == 16

BS == 8             \* '\b'
TAB == 9            \* '\t'
LF == 10            \* '\n'
CR == 13            \* '\r'
CTRLD == 4          \* 0x04
SP == 32            \* ' '

CMD_PROMPT == <<62, 32>>                            \* "> "
UnknownHead == <<85, 110, 107, 110, 111, 119, 110, 32,
                 99, 111, 109, 109, 97, 110, 100, 32, 34>>   \* Unknown command "
UnknownTail == <<34, 46, 10>>                       \* ".\n
BackErase == <<8, 32, 8>>                           \* "\b \b"

NULL == "NULL"
Uninit == "uninit"
defaultUnrecognizedCmdHandler == "defaultUnrecognizedCmdHandler"

----------------------------------------------------------------------------
(* Bounds and input alphabets *)

MaxLine == 2        \* text bytes are fed while the line is shorter than this
MaxTableLine == 1   \* the same, where the table is filled to capacity
MaxAvail == 1       \* bytes the stream holds unread
MaxVaried == 1      \* registrations that choose their name and handler freely
MaxScript == 5      \* length of a drawn input script
MaxIx == 3          \* word indices asked of getWord
MaxName == 2        \* length of a command name, where names are compared
MaxFrame == 3       \* registrations, where the table is watched for changes
MaxPoll == 4        \* length of a drawn input script, where run() is called for ever

LetterA == <<97>>                                   \* "a"
LetterUpperA == <<65>>                              \* "A"
Letters == {LetterA[1], LetterUpperA[1]}

CtlBytes == {BS, CR, LF, CTRLD}
EditBytes == {SP, LetterA[1], TAB} \cup CtlBytes
ScriptBytes == Letters \cup {TAB} \cup CtlBytes
TableBytes == Letters \cup {CR}
GrowBytes == Letters \cup {SP, TAB}

EditNames == {LetterA}
TableNames == {<<>>, LetterA, LetterUpperA}
UserHandlers == {"onHelp"}
PadCmd == LetterA
PadHandler == "onMaxcmds"
DefaultChoices == {NULL, "onDefaultCommand"}
WildOutcomes == UserHandlers \cup {"crash"}

Slots == 0 .. (CMD_MAX_HANDLERS - 1)

\* the strings of at most n letters
RECURSIVE LetterStrings(_)
LetterStrings(n) ==
    IF n = 0 THEN {<<>>}
    ELSE LET shorter == LetterStrings(n - 1)
         IN  shorter \cup {Append(s, c) : s \in shorter, c \in Letters}

MatchNames == LetterStrings(MaxName) \ {<<>>}
MatchWords == LetterStrings(MaxName + 1) \ {<<>>}
EchoArgs == {LetterA, <<55>>}                       \* "a", "7"
MatchLines == MatchWords \cup {n \o <<SP>> \o a : n \in MatchNames, a \in EchoArgs}
StringHandlers == {"onEcho"}

----------------------------------------------------------------------------
(* String helpers *)

\* isspace(): ' ', '\t', '\n', '\v', '\f', '\r'
IsSpace(c) == c \in {SP, TAB, LF, CR} \cup {11, 12}

RECURSIVE TrimLeft(_)
TrimLeft(s) ==
    IF s # <<>> /\ IsSpace(Head(s)) THEN TrimLeft(Tail(s)) ELSE s

RECURSIVE TrimRight(_)
TrimRight(s) ==
    IF s # <<>> /\ IsSpace(s[Len(s)]) THEN TrimRight(SubSeq(s, 1, Len(s) - 1)) ELSE s

Trim(s) == TrimRight(TrimLeft(s))

\* while (startAt < len && (charAt(startAt) == ' ') == onSpace) startAt++;
RECURSIVE Skip(_, _, _)
Skip(s, startAt, onSpace) ==
    IF startAt < Len(s) /\ ((s[startAt + 1] = SP) = onSpace)
    THEN Skip(s, startAt + 1, onSpace)
    ELSE startAt

\* startAt after the for loop of getWord has run ix times
RECURSIVE SkipWords(_, _)
SkipWords(s, ix) ==
    IF ix = 0 THEN 0 ELSE Skip(s, Skip(s, SkipWords(s, ix - 1), TRUE), FALSE)

\* getWord without the loop that skips the spaces in front of the word
WordOfNoSkip(s, ix) ==
    LET from == SkipWords(s, ix % 256)
        to == Skip(s, from, FALSE)
    IN  SubSeq(s, from + 1, to)

WordOf(s, ix) ==
    LET from == Skip(s, SkipWords(s, ix % 256), TRUE)
        to == Skip(s, from, FALSE)
    IN  SubSeq(s, from + 1, to)

getWord(ix) == WordOf(commandLine, ix)

getCommandLine == commandLine

----------------------------------------------------------------------------
(* Construction *)

Init ==
    /\ handlers = <<>>
    /\ cmds = <<>>
    /\ defaultHandler \in {defaultUnrecognizedCmdHandler, NULL}
    /\ echoing \in BOOLEAN
    /\ handlerCount = 0
    /\ commandLine = <<>>
    /\ lastCommandLine = <<>>
    /\ newCmd = TRUE
    /\ avail = <<>>
    /\ pc = "idle"
    /\ out = <<>>
    /\ called = <<>>
    /\ op = "construct"
    /\ ret = "none"
    /\ touched = {}
    /\ answer = <<>>
    /\ accepted = <<>>
    /\ since = "other"

----------------------------------------------------------------------------
(* The record of the line accepted last.  `since' is "accepted" right after  *)
(* a line was accepted ("repeated" if that line had been recalled), "fresh"  *)
(* once run() has started the next line from there, "recalled" once a 0x04   *)
(* read first has recalled it, and "other" as soon as any other byte was     *)
(* read or the line was cancelled.  `accepted' is kept while `since' is not  *)
(* "other" and the table is as it was.                                       *)

JustAccepted == since \in {"accepted", "repeated"}

Interrupts == answer' = <<>> /\ since' = "other" /\ accepted' = <<>>

Passes == answer' = <<>> /\ UNCHANGED <<accepted, since>>

\* a registration call leaves the editor where it is
Registers == answer' = <<>> /\ accepted' = <<>> /\ UNCHANGED since

----------------------------------------------------------------------------
(* Registration *)

attachDefaultCmdHandler(handler) ==
    /\ pc = "idle"
    /\ defaultHandler' = handler
    /\ op' = "attachDefaultCmdHandler"
    /\ out' = <<>> /\ called' = <<>> /\ ret' = "void" /\ touched' = {}
    /\ UNCHANGED <<table, buffers, echoing, newCmd, avail, pc>>
    /\ Registers

\* the capacity test written with <= instead of <
attachCmdHandlerOffByOne(cmd, handler) ==
    /\ pc = "idle"
    /\ IF handlerCount <= CMD_MAX_HANDLERS
       THEN /\ cmds' = Append(cmds, cmd)
            /\ handlers' = Append(handlers, handler)
            /\ handlerCount' = handlerCount + 1
            /\ touched' = {handlerCount}
            /\ ret' = "true"
       ELSE /\ UNCHANGED table
            /\ touched' = {}
            /\ ret' = "false"
    /\ op' = "attachCmdHandler"
    /\ out' = <<>> /\ called' = <<>>
    /\ UNCHANGED <<defaultHandler, buffers, echoing, newCmd, avail, pc>>
    /\ Registers

\* the new pair put in slot 0, the earlier pairs moved up by one
attachCmdHandlerPrepends(cmd, handler) ==
    /\ pc = "idle"
    /\ IF handlerCount < CMD_MAX_HANDLERS
       THEN /\ cmds' = <<cmd>> \o cmds
            /\ handlers' = <<handler>> \o handlers
            /\ handlerCount' = handlerCount + 1
            /\ touched' = {handlerCount}
            /\ ret' = "true"
       ELSE /\ UNCHANGED table
            /\ touched' = {}
            /\ ret' = "false"
    /\ op' = "attachCmdHandler"
    /\ out' = <<>> /\ called' = <<>>
    /\ UNCHANGED <<defaultHandler, buffers, echoing, newCmd, avail, pc>>
    /\ Registers

attachCmdHandler(cmd, handler) ==
    /\ pc = "idle"
    /\ IF handlerCount < CMD_MAX_HANDLERS
       THEN /\ cmds' = Append(cmds, cmd)
            /\ handlers' = Append(handlers, handler)
            /\ handlerCount' = handlerCount + 1
            /\ touched' = {handlerCount}
            /\ ret' = "true"
       ELSE /\ UNCHANGED table
            /\ touched' = {}
            /\ ret' = "false"
    /\ op' = "attachCmdHandler"
    /\ out' = <<>> /\ called' = <<>>
    /\ UNCHANGED <<defaultHandler, buffers, echoing, newCmd, avail, pc>>
    /\ Registers

\* cancelCmd() that leaves newCmd as it is
cancelCmdKeepsFlag ==
    /\ pc = "idle"
    /\ UNCHANGED newCmd
    /\ op' = "cancelCmd"
    /\ out' = <<>> /\ called' = <<>> /\ ret' = "void" /\ touched' = {}
    /\ UNCHANGED <<table, defaultHandler, buffers, echoing, avail, pc>>
    /\ IF JustAccepted THEN Passes ELSE Interrupts

cancelCmd ==
    /\ pc = "idle"
    /\ newCmd' = TRUE
    /\ op' = "cancelCmd"
    /\ out' = <<>> /\ called' = <<>> /\ ret' = "void" /\ touched' = {}
    /\ UNCHANGED <<table, defaultHandler, buffers, echoing, avail, pc>>
    /\ IF JustAccepted THEN Passes ELSE Interrupts

----------------------------------------------------------------------------
(* The accessors, called on the line accepted last *)

\* getWord() that takes the word out of the buffer
callGetWordConsumes(ix) ==
    /\ pc = "idle"
    /\ JustAccepted
    /\ answer' = <<[fn |-> "getWord", ix |-> ix, val |-> getWord(ix),
                     again |-> answer # <<>>]>>
    /\ commandLine' = SubSeq(commandLine, Len(getWord(ix)) + 1, Len(commandLine))
    /\ op' = "getWord"
    /\ out' = <<>> /\ called' = <<>> /\ ret' = "String" /\ touched' = {}
    /\ UNCHANGED <<table, defaultHandler, lastCommandLine, echoing, newCmd, avail, pc,
                   accepted, since>>

callGetWord(ix) ==
    /\ pc = "idle"
    /\ JustAccepted
    /\ answer' = <<[fn |-> "getWord", ix |-> ix, val |-> getWord(ix),
                     again |-> answer # <<>>]>>
    /\ op' = "getWord"
    /\ out' = <<>> /\ called' = <<>> /\ ret' = "String" /\ touched' = {}
    /\ UNCHANGED <<table, defaultHandler, buffers, echoing, newCmd, avail, pc,
                   accepted, since>>

callGetCommandLine ==
    /\ pc = "idle"
    /\ JustAccepted
    /\ answer' = <<[fn |-> "getCommandLine", ix |-> 0, val |-> getCommandLine,
                     again |-> answer # <<>>]>>
    /\ op' = "getCommandLine"
    /\ out' = <<>> /\ called' = <<>> /\ ret' = "String" /\ touched' = {}
    /\ UNCHANGED <<table, defaultHandler, buffers, echoing, newCmd, avail, pc,
                   accepted, since>>

\* the handler of the first entry registered under commandName, the default
\* command handler if the name is that of no command
getHandlerFor(commandName) ==
    LET hits == {i \in 0 .. (handlerCount - 1) : cmds[i + 1] = commandName}
    IN  IF hits = {} THEN defaultHandler
        ELSE handlers[(CHOOSE i \in hits : \A j \in hits : i <= j) + 1]

callGetHandlerFor(commandName) ==
    /\ pc = "idle"
    /\ answer' = <<[fn |-> "getHandlerFor", arg |-> commandName,
                     val |-> getHandlerFor(commandName), again |-> answer # <<>>]>>
    /\ op' = "getHandlerFor"
    /\ out' = <<>> /\ called' = <<>> /\ ret' = "commandHandler_t" /\ touched' = {}
    /\ UNCHANGED <<table, defaultHandler, buffers, echoing, newCmd, avail, pc,
                   accepted, since>>

----------------------------------------------------------------------------
(* The stream *)

StreamReceive(c, maxLine) ==
    /\ pc # "crashed"
    /\ Len(avail) < MaxAvail
    /\ c \in GrowBytes => Len(commandLine) + Len(avail) < maxLine
    /\ (c \in GrowBytes /\ \E i \in DOMAIN avail : avail[i] = CTRLD)
          => Len(lastCommandLine) + Len(avail) < maxLine
    /\ avail' = Append(avail, c)
    /\ op' = "StreamReceive"
    /\ out' = <<>> /\ called' = <<>> /\ ret' = "none" /\ touched' = {}
    /\ UNCHANGED <<table, defaultHandler, buffers, echoing, newCmd, pc>>
    /\ Passes

----------------------------------------------------------------------------
(* run() *)

Echo(s) == IF echoing THEN s ELSE <<>>

\* the entry block without commandLine = ""
runBeginKeepsLine ==
    /\ pc = "idle"
    /\ pc' = "run"
    /\ IF newCmd
       THEN /\ out' = Echo(CMD_PROMPT)
            /\ lastCommandLine' = commandLine
            /\ UNCHANGED commandLine
            /\ newCmd' = FALSE
       ELSE /\ out' = <<>>
            /\ UNCHANGED <<buffers, newCmd>>
    /\ op' = "runBegin"
    /\ called' = <<>> /\ ret' = "none" /\ touched' = {}
    /\ UNCHANGED <<table, defaultHandler, echoing, avail>>
    /\ since' = IF ~newCmd THEN since
               ELSE IF JustAccepted THEN "fresh" ELSE "other"
    /\ answer' = <<>>
    /\ UNCHANGED accepted

\* the prompt printed outside the if (newCmd) block
runBeginAlwaysPrompts ==
    /\ pc = "idle"
    /\ pc' = "run"
    /\ out' = Echo(CMD_PROMPT)
    /\ IF newCmd
       THEN /\ lastCommandLine' = commandLine
            /\ commandLine' = <<>>
            /\ newCmd' = FALSE
       ELSE UNCHANGED <<buffers, newCmd>>
    /\ op' = "runBegin"
    /\ called' = <<>> /\ ret' = "none" /\ touched' = {}
    /\ UNCHANGED <<table, defaultHandler, echoing, avail>>
    /\ since' = IF ~newCmd THEN since
               ELSE IF JustAccepted THEN "fresh" ELSE "other"
    /\ answer' = <<>>
    /\ UNCHANGED accepted

\* the entry block without newCmd = false
runBeginKeepsFlag ==
    /\ pc = "idle"
    /\ pc' = "run"
    /\ IF newCmd
       THEN /\ out' = Echo(CMD_PROMPT)
            /\ lastCommandLine' = commandLine
            /\ commandLine' = <<>>
            /\ UNCHANGED newCmd
       ELSE /\ out' = <<>>
            /\ UNCHANGED <<buffers, newCmd>>
    /\ op' = "runBegin"
    /\ called' = <<>> /\ ret' = "none" /\ touched' = {}
    /\ UNCHANGED <<table, defaultHandler, echoing, avail>>
    /\ since' = IF ~newCmd THEN since
               ELSE IF JustAccepted THEN "fresh" ELSE "other"
    /\ answer' = <<>>
    /\ UNCHANGED accepted

\* the entry block without its test of newCmd
runBeginNoFlagTest ==
    /\ pc = "idle"
    /\ pc' = "run"
    /\ out' = Echo(CMD_PROMPT)
    /\ lastCommandLine' = commandLine
    /\ commandLine' = <<>>
    /\ newCmd' = FALSE
    /\ op' = "runBegin"
    /\ called' = <<>> /\ ret' = "none" /\ touched' = {}
    /\ UNCHANGED <<table, defaultHandler, echoing, avail>>
    /\ since' = IF ~newCmd THEN since
               ELSE IF JustAccepted THEN "fresh" ELSE "other"
    /\ answer' = <<>>
    /\ UNCHANGED accepted

\* the entry block saving the line as the last line only if it is not empty
runBeginKeepsLastOnBlank ==
    /\ pc = "idle"
    /\ pc' = "run"
    /\ IF newCmd
       THEN /\ out' = Echo(CMD_PROMPT)
            /\ lastCommandLine' = IF commandLine # <<>> THEN commandLine
                                  ELSE lastCommandLine
            /\ commandLine' = <<>>
            /\ newCmd' = FALSE
       ELSE /\ out' = <<>>
            /\ UNCHANGED <<buffers, newCmd>>
    /\ op' = "runBegin"
    /\ called' = <<>> /\ ret' = "none" /\ touched' = {}
    /\ UNCHANGED <<table, defaultHandler, echoing, avail>>
    /\ since' = IF ~newCmd THEN since
               ELSE IF JustAccepted THEN "fresh" ELSE "other"
    /\ answer' = <<>>
    /\ UNCHANGED accepted

runBegin ==
    /\ pc = "idle"
    /\ pc' = "run"
    /\ IF newCmd
       THEN /\ out' = Echo(CMD_PROMPT)
            /\ lastCommandLine' = commandLine
            /\ commandLine' = <<>>
            /\ newCmd' = FALSE
       ELSE /\ out' = <<>>
            /\ UNCHANGED <<buffers, newCmd>>
    /\ op' = "runBegin"
    /\ called' = <<>> /\ ret' = "none" /\ touched' = {}
    /\ UNCHANGED <<table, defaultHandler, echoing, avail>>
    /\ since' = IF ~newCmd THEN since
               ELSE IF JustAccepted THEN "fresh" ELSE "other"
    /\ answer' = <<>>
    /\ UNCHANGED accepted

\* stream->available() is false: the loop ends and run() returns
\* newCmd = true after the loop instead of in case '\r'
runEndSetsFlag ==
    /\ pc = "run"
    /\ avail = <<>>
    /\ pc' = "idle"
    /\ newCmd' = TRUE
    /\ op' = "runEnd"
    /\ out' = <<>> /\ called' = <<>> /\ ret' = "void" /\ touched' = {}
    /\ UNCHANGED <<table, defaultHandler, buffers, echoing, avail>>
    /\ Passes

runEnd ==
    /\ pc = "run"
    /\ avail = <<>>
    /\ pc' = "idle"
    /\ op' = "runEnd"
    /\ out' = <<>> /\ called' = <<>> /\ ret' = "void" /\ touched' = {}
    /\ UNCHANGED <<table, defaultHandler, buffers, echoing, newCmd, avail>>
    /\ Passes

Reads(c) ==
    /\ pc = "run"
    /\ avail # <<>>
    /\ Head(avail) = c
    /\ avail' = Tail(avail)

Quiet == called' = <<>> /\ ret' = "none" /\ touched' = {}

\* substring(1) instead of substring(0, length() - 1)
runBackspaceDropsFirst ==
    /\ Reads(BS)
    /\ IF Len(commandLine) > 0
       THEN /\ commandLine' = Tail(commandLine)
            /\ out' = Echo(BackErase)
       ELSE /\ UNCHANGED commandLine
            /\ out' = <<>>
    /\ op' = "runBackspace"
    /\ Quiet
    /\ UNCHANGED <<table, defaultHandler, lastCommandLine, echoing, newCmd, pc>>
    /\ Interrupts

runBackspace ==
    /\ Reads(BS)
    /\ IF Len(commandLine) > 0
       THEN /\ commandLine' = SubSeq(commandLine, 1, Len(commandLine) - 1)
            /\ out' = Echo(BackErase)
       ELSE /\ UNCHANGED commandLine
            /\ out' = <<>>
    /\ op' = "runBackspace"
    /\ Quiet
    /\ UNCHANGED <<table, defaultHandler, lastCommandLine, echoing, newCmd, pc>>
    /\ Interrupts

\* case '\n' looking at the byte with peek() instead of read()
runNewlinePeeks ==
    /\ pc = "run"
    /\ avail # <<>>
    /\ Head(avail) = LF
    /\ UNCHANGED avail
    /\ out' = <<>>
    /\ op' = "runNewline"
    /\ Quiet
    /\ UNCHANGED <<table, defaultHandler, buffers, echoing, newCmd, pc>>
    /\ Interrupts

\* the switch without its case '\n': the byte is appended and echoed
runNewlineStores ==
    /\ Reads(LF)
    /\ commandLine' = Append(commandLine, LF)
    /\ out' = Echo(<<LF>>)
    /\ op' = "runNewline"
    /\ Quiet
    /\ UNCHANGED <<table, defaultHandler, lastCommandLine, echoing, newCmd, pc>>
    /\ Interrupts

runNewline ==
    /\ Reads(LF)
    /\ out' = <<>>
    /\ op' = "runNewline"
    /\ Quiet
    /\ UNCHANGED <<table, defaultHandler, buffers, echoing, newCmd, pc>>
    /\ Interrupts

\* the switch without its case '\t': the byte is appended and echoed
runTabStoresTab ==
    /\ Reads(TAB)
    /\ commandLine' = Append(commandLine, TAB)
    /\ out' = Echo(<<TAB>>)
    /\ op' = "runTab"
    /\ Quiet
    /\ UNCHANGED <<table, defaultHandler, lastCommandLine, echoing, newCmd, pc>>
    /\ Interrupts

\* case '\t' printing the byte read instead of ' '
runTabEchoesTab ==
    /\ Reads(TAB)
    /\ commandLine' = Append(commandLine, SP)
    /\ out' = Echo(<<TAB>>)
    /\ op' = "runTab"
    /\ Quiet
    /\ UNCHANGED <<table, defaultHandler, lastCommandLine, echoing, newCmd, pc>>
    /\ Interrupts

runTab ==
    /\ Reads(TAB)
    /\ commandLine' = Append(commandLine, SP)
    /\ out' = Echo(<<SP>>)
    /\ op' = "runTab"
    /\ Quiet
    /\ UNCHANGED <<table, defaultHandler, lastCommandLine, echoing, newCmd, pc>>
    /\ Interrupts

\* the recall without the test commandLine.length() == 0
runCtrlDOverwrites ==
    /\ Reads(CTRLD)
    /\ IF Len(lastCommandLine) # 0
       THEN /\ commandLine' = lastCommandLine
            /\ out' = Echo(lastCommandLine)
       ELSE /\ UNCHANGED commandLine
            /\ out' = <<>>
    /\ op' = "runCtrlD"
    /\ Quiet
    /\ UNCHANGED <<table, defaultHandler, lastCommandLine, echoing, newCmd, pc>>
    /\ since' = IF Len(commandLine) = 0 /\ Len(lastCommandLine) # 0 /\ since = "fresh"
               THEN "recalled" ELSE "other"
    /\ accepted' = IF since' = "recalled" THEN accepted ELSE <<>>
    /\ answer' = <<>>

\* the recall taking lastCommandLine.substring(1)
runCtrlDDropsFirst ==
    /\ Reads(CTRLD)
    /\ IF Len(commandLine) = 0 /\ Len(lastCommandLine) # 0
       THEN /\ commandLine' = Tail(lastCommandLine)
            /\ out' = Echo(Tail(lastCommandLine))
       ELSE /\ UNCHANGED commandLine
            /\ out' = <<>>
    /\ op' = "runCtrlD"
    /\ Quiet
    /\ UNCHANGED <<table, defaultHandler, lastCommandLine, echoing, newCmd, pc>>
    /\ since' = IF Len(commandLine) = 0 /\ Len(lastCommandLine) # 0 /\ since = "fresh"
               THEN "recalled" ELSE "other"
    /\ accepted' = IF since' = "recalled" THEN accepted ELSE <<>>
    /\ answer' = <<>>

\* case 0x04 without its break: the default case takes the byte as well
runCtrlDFallsThrough ==
    /\ Reads(CTRLD)
    /\ IF Len(commandLine) = 0 /\ Len(lastCommandLine) # 0
       THEN /\ commandLine' = Append(lastCommandLine, CTRLD)
            /\ out' = Echo(Append(lastCommandLine, CTRLD))
       ELSE /\ commandLine' = Append(commandLine, CTRLD)
            /\ out' = Echo(<<CTRLD>>)
    /\ op' = "runCtrlD"
    /\ Quiet
    /\ UNCHANGED <<table, defaultHandler, lastCommandLine, echoing, newCmd, pc>>
    /\ since' = IF Len(commandLine) = 0 /\ Len(lastCommandLine) # 0 /\ since = "fresh"
               THEN "recalled" ELSE "other"
    /\ accepted' = IF since' = "recalled" THEN accepted ELSE <<>>
    /\ answer' = <<>>

runCtrlD ==
    /\ Reads(CTRLD)
    /\ IF Len(commandLine) = 0 /\ Len(lastCommandLine) # 0
       THEN /\ commandLine' = lastCommandLine
            /\ out' = Echo(lastCommandLine)
       ELSE /\ UNCHANGED commandLine
            /\ out' = <<>>
    /\ op' = "runCtrlD"
    /\ Quiet
    /\ UNCHANGED <<table, defaultHandler, lastCommandLine, echoing, newCmd, pc>>
    /\ since' = IF Len(commandLine) = 0 /\ Len(lastCommandLine) # 0 /\ since = "fresh"
               THEN "recalled" ELSE "other"
    /\ accepted' = IF since' = "recalled" THEN accepted ELSE <<>>
    /\ answer' = <<>>

\* the switch without its case '\r': the default case takes the byte too
runDefaultTakesCR ==
    /\ pc = "run"
    /\ avail # <<>>
    /\ Head(avail) \notin {BS, LF, TAB, CTRLD}
    /\ avail' = Tail(avail)
    /\ commandLine' = Append(commandLine, Head(avail))
    /\ out' = Echo(<<Head(avail)>>)
    /\ op' = "runDefault"
    /\ Quiet
    /\ UNCHANGED <<table, defaultHandler, lastCommandLine, echoing, newCmd, pc>>
    /\ Interrupts

\* the default case with the append inside if (echoing)
runDefaultStoresIfEchoing ==
    /\ pc = "run"
    /\ avail # <<>>
    /\ Head(avail) \notin {BS, CR, LF, TAB, CTRLD}
    /\ avail' = Tail(avail)
    /\ commandLine' = IF echoing THEN Append(commandLine, Head(avail)) ELSE commandLine
    /\ out' = Echo(<<Head(avail)>>)
    /\ op' = "runDefault"
    /\ Quiet
    /\ UNCHANGED <<table, defaultHandler, lastCommandLine, echoing, newCmd, pc>>
    /\ Interrupts

runDefault ==
    /\ pc = "run"
    /\ avail # <<>>
    /\ Head(avail) \notin {BS, CR, LF, TAB, CTRLD}
    /\ avail' = Tail(avail)
    /\ commandLine' = Append(commandLine, Head(avail))
    /\ out' = Echo(<<Head(avail)>>)
    /\ op' = "runDefault"
    /\ Quiet
    /\ UNCHANGED <<table, defaultHandler, lastCommandLine, echoing, newCmd, pc>>
    /\ Interrupts

----------------------------------------------------------------------------
(* process() *)

\* a slot never written holds what construction left there: an empty String,
\* an uninitialized function pointer
ReadCmd(ix) == IF ix + 1 \in DOMAIN cmds THEN cmds[ix + 1] ELSE <<>>
ReadHandler(ix) == IF ix + 1 \in DOMAIN handlers THEN handlers[ix + 1] ELSE Uninit

\* the scan with the increment before the first comparison
RECURSIVE ScanMissesFirst(_, _)
ScanMissesFirst(cmd, ix) ==
    IF ix > 0 /\ cmd = ReadCmd(ix) THEN ix
    ELSE IF ix + 1 < handlerCount THEN ScanMissesFirst(cmd, ix + 1)
    ELSE ix + 1

\* the scan with while (++ix <= handlerCount)
RECURSIVE ScanPastEnd(_, _)
ScanPastEnd(cmd, ix) ==
    IF cmd = ReadCmd(ix) THEN ix
    ELSE IF ix + 1 <= handlerCount THEN ScanPastEnd(cmd, ix + 1)
    ELSE ix + 1

\* the scan run from the last entry down: the latest registration wins
ScanLatest(cmd, ix) ==
    LET hits == {i \in ix .. (handlerCount - 1) : cmd = ReadCmd(i)}
    IN  IF hits # {} THEN CHOOSE i \in hits : \A j \in hits : j <= i
        ELSE IF handlerCount = 0 THEN ix + 1 ELSE handlerCount

\* String::toLowerCase()
Lower(s) == [i \in DOMAIN s |-> IF s[i] \in 65 .. 90 THEN s[i] + 32 ELSE s[i]]

\* the scan comparing with equalsIgnoreCase()
RECURSIVE ScanIgnoringCase(_, _)
ScanIgnoringCase(cmd, ix) ==
    IF Lower(cmd) = Lower(ReadCmd(ix)) THEN ix
    ELSE IF ix + 1 < handlerCount THEN ScanIgnoringCase(cmd, ix + 1)
    ELSE ix + 1

\* do { if (cmd.equals(cmds[ix])) break; } while (++ix < handlerCount);
RECURSIVE Scan(_, _)
Scan(cmd, ix) ==
    IF cmd = ReadCmd(ix) THEN ix
    ELSE IF ix + 1 < handlerCount THEN Scan(cmd, ix + 1)
    ELSE ix + 1

\* the cmds[] slots the scan compared against
Compared(cmd) ==
    LET ix == Scan(cmd, 0)
    IN  IF cmd = ReadCmd(ix) THEN 0 .. ix ELSE 0 .. (ix - 1)

Invocation(h, ix, line) ==
    [h |-> h, slot |-> ix, word0 |-> WordOf(line, 0), line |-> line, flag |-> newCmd]

\* process() without the test for a zero-length command
DispatchNoBlankCheck(line) ==
    LET cmd == WordOf(line, 0)
        ix == Scan(cmd, 0)
    IN  IF ix = handlerCount
        THEN IF defaultHandler # NULL
             THEN {<<Invocation(defaultHandler, -1, line)>>}
             ELSE {<<>>}
        ELSE IF ReadHandler(ix) = Uninit
             THEN {<<Invocation(o, ix, line)>> : o \in WildOutcomes}
             ELSE {<<Invocation(ReadHandler(ix), ix, line)>>}

\* the calls process() can make on the trimmed line, as sequences of invocations
Dispatch(line) ==
    LET cmd == WordOf(line, 0)
        ix == Scan(cmd, 0)
    IN  IF Len(cmd) = 0 THEN {<<>>}
        ELSE IF ix = handlerCount
        THEN IF defaultHandler # NULL
             THEN {<<Invocation(defaultHandler, -1, line)>>}
             ELSE {<<>>}
        ELSE IF ReadHandler(ix) = Uninit
             THEN {<<Invocation(o, ix, line)>> : o \in WildOutcomes}
             ELSE {<<Invocation(ReadHandler(ix), ix, line)>>}

DispatchTouched(line) ==
    LET cmd == WordOf(line, 0)
        ix == Scan(cmd, 0)
    IN  IF Len(cmd) = 0 THEN {}
        ELSE Compared(cmd) \cup (IF ix = handlerCount THEN {} ELSE {ix})

\* String::toInt(): the value of the leading decimal digits, after a sign
RECURSIVE Digits(_, _)
Digits(s, acc) ==
    IF s = <<>> \/ Head(s) \notin 48 .. 57 THEN acc
    ELSE Digits(Tail(s), acc * 10 + (Head(s) - 48))

ToInt(s) ==
    IF s # <<>> /\ Head(s) = 45 THEN 0 - Digits(Tail(s), 0)
    ELSE IF s # <<>> /\ Head(s) = 43 THEN Digits(Tail(s), 0)
    ELSE Digits(s, 0)

\* String + long: the decimal digits of n
RECURSIVE Decimal(_)
Decimal(n) ==
    IF n < 0 THEN <<45>> \o Decimal(0 - n)
    ELSE IF n < 10 THEN <<48 + n>>
    ELSE Decimal(n \div 10) \o <<48 + (n % 10)>>

EchoNothing == <<69, 120, 112, 101, 99, 116, 101, 100, 32, 97, 110, 100, 32, 105, 110,
                 116, 101, 103, 101, 114, 32, 116, 111, 32, 101, 99, 104, 111, 59, 32,
                 103, 111, 116, 32, 110, 111, 116, 104, 105, 110, 103, 46, 10>>
EchoHead == <<84, 104, 101, 32, 101, 99, 104, 111, 32, 99, 111, 109, 109, 97, 110, 100,
              32, 114, 101, 99, 101, 105, 118, 101, 100, 32>>
EchoTail == <<46, 10>>

\* the sketch's handler of the echo command: the String it returns
onEcho(line) ==
    LET word == WordOf(line, 1)
    IN  IF word = <<>> THEN EchoNothing
        ELSE EchoHead \o Decimal(ToInt(word)) \o EchoTail

\* the String an invoked handler hands back
Returned(call) == IF call.h = "onEcho" THEN onEcho(call.line) ELSE <<>>

\* the response followed by a newline of the dispatcher's own
RespondsWithNewline(calls) == Returned(calls[1]) \o <<LF>>

\* what the dispatcher writes of the String a handler returned
Responds(calls) == Returned(calls[1])

\* what is written while the handler is being called: by the library's own
\* handler, or by the dispatcher for a handler that returns its response
HandlerOutput(calls) ==
    IF calls # <<>> /\ calls[1].h = defaultUnrecognizedCmdHandler
    THEN UnknownHead \o calls[1].word0 \o UnknownTail
    ELSE IF calls # <<>> /\ calls[1].h \in StringHandlers
    THEN Responds(calls)
    ELSE <<>>

process(calls) ==
    /\ commandLine' = Trim(commandLine)
    /\ calls \in Dispatch(Trim(commandLine))
    /\ called' = calls
    /\ touched' = DispatchTouched(Trim(commandLine))

\* case '\r' with newCmd = true before process()
runReturnFlagFirst ==
    /\ Reads(CR)
    /\ \E calls \in Dispatch(Trim(commandLine)) :
          /\ commandLine' = Trim(commandLine)
          /\ called' = [k \in DOMAIN calls |-> [calls[k] EXCEPT !.flag = TRUE]]
          /\ touched' = DispatchTouched(Trim(commandLine))
          /\ out' = Echo(<<LF>>) \o HandlerOutput(calls)
          /\ newCmd' = TRUE
          /\ IF calls # <<>> /\ calls[1].h = "crash"
             THEN pc' = "crashed"
             ELSE pc' = "idle"
    /\ op' = "runReturn"
    /\ ret' = "void"
    /\ UNCHANGED <<table, defaultHandler, lastCommandLine, echoing>>
    /\ accepted' = <<[line |-> commandLine', calls |-> called']>>
    /\ since' = IF since = "recalled" THEN "repeated" ELSE "accepted"
    /\ answer' = <<>>

\* case '\r' ending with break instead of return: the loop goes on reading
runReturnReadsOn ==
    /\ Reads(CR)
    /\ \E calls \in Dispatch(Trim(commandLine)) :
          /\ process(calls)
          /\ out' = Echo(<<LF>>) \o HandlerOutput(calls)
          /\ IF calls # <<>> /\ calls[1].h = "crash"
             THEN pc' = "crashed" /\ UNCHANGED newCmd
             ELSE pc' = "run" /\ newCmd' = TRUE
    /\ op' = "runReturn"
    /\ ret' = "void"
    /\ UNCHANGED <<table, defaultHandler, lastCommandLine, echoing>>
    /\ accepted' = <<[line |-> commandLine', calls |-> called']>>
    /\ since' = IF since = "recalled" THEN "repeated" ELSE "accepted"
    /\ answer' = <<>>

\* case '\r' looking at the byte with peek() instead of read()
runReturnPeeks ==
    /\ pc = "run"
    /\ avail # <<>>
    /\ Head(avail) = CR
    /\ UNCHANGED avail
    /\ \E calls \in Dispatch(Trim(commandLine)) :
          /\ process(calls)
          /\ out' = Echo(<<LF>>) \o HandlerOutput(calls)
          /\ IF calls # <<>> /\ calls[1].h = "crash"
             THEN pc' = "crashed" /\ UNCHANGED newCmd
             ELSE pc' = "idle" /\ newCmd' = TRUE
    /\ op' = "runReturn"
    /\ ret' = "void"
    /\ UNCHANGED <<table, defaultHandler, lastCommandLine, echoing>>
    /\ accepted' = <<[line |-> commandLine', calls |-> called']>>
    /\ since' = IF since = "recalled" THEN "repeated" ELSE "accepted"
    /\ answer' = <<>>

runReturn ==
    /\ Reads(CR)
    /\ \E calls \in Dispatch(Trim(commandLine)) :
          /\ process(calls)
          /\ out' = Echo(<<LF>>) \o HandlerOutput(calls)
          /\ IF calls # <<>> /\ calls[1].h = "crash"
             THEN pc' = "crashed" /\ UNCHANGED newCmd
             ELSE pc' = "idle" /\ newCmd' = TRUE
    /\ op' = "runReturn"
    /\ ret' = "void"
    /\ UNCHANGED <<table, defaultHandler, lastCommandLine, echoing>>
    /\ accepted' = <<[line |-> commandLine', calls |-> called']>>
    /\ since' = IF since = "recalled" THEN "repeated" ELSE "accepted"
    /\ answer' = <<>>

----------------------------------------------------------------------------

Register(names) ==
    \E cmd \in names, h \in UserHandlers :
        handlerCount < MaxVaried /\ attachCmdHandler(cmd, h)

Pad == handlerCount >= MaxVaried /\ attachCmdHandler(PadCmd, PadHandler)

SetDefault == \E h \in DefaultChoices : attachDefaultCmdHandler(h)

Receive(bytes, maxLine) == \E c \in bytes : StreamReceive(c, maxLine)

RunStep ==
    \/ runBegin
    \/ runBackspace
    \/ runReturn
    \/ runNewline
    \/ runTab
    \/ runCtrlD
    \/ runDefault
    \/ runEnd

\* a handler is looked up by name while no input is pending
Lookup(names) ==
    \E name \in names :
        commandLine = <<>> /\ avail = <<>> /\ callGetHandlerFor(name)

\* The editor and dispatcher with bytes arriving at any time
Next ==
    \/ SetDefault
    \/ Register(EditNames)
    \/ Lookup(EditNames)
    \/ cancelCmd
    \/ Receive(EditBytes, MaxLine)
    \/ RunStep

Spec == Init /\ [][Next]_vars

\* Registration up to the capacity of the table.  The stream carries only
\* TableBytes, for which run() takes no other case of its switch than these.
NextTable ==
    \/ SetDefault
    \/ Register(TableNames)
    \/ Pad
    \/ cancelCmd
    \/ Receive(TableBytes, MaxTableLine)
    \/ runBegin
    \/ runReturn
    \/ runDefault
    \/ runEnd

InitTable == Init /\ echoing = TRUE

SpecTable == InitTable /\ [][NextTable]_vars

\* A whole input script is in the stream before the first run()
RECURSIVE Scripts(_)
Scripts(n) ==
    IF n = 0 THEN {<<>>}
    ELSE LET shorter == Scripts(n - 1)
         IN  shorter \cup {Append(s, c) : s \in shorter, c \in ScriptBytes}

InitScript ==
    /\ handlers = <<"onHelp">>
    /\ cmds = <<LetterA>>
    /\ defaultHandler = defaultUnrecognizedCmdHandler
    /\ echoing \in BOOLEAN
    /\ handlerCount = 1
    /\ commandLine = <<>>
    /\ lastCommandLine = <<>>
    /\ newCmd = TRUE
    /\ avail \in Scripts(MaxScript)
    /\ pc = "idle"
    /\ out = <<>>
    /\ called = <<>>
    /\ op = "attachCmdHandler"
    /\ ret = "true"
    /\ touched = {0}
    /\ answer = <<>>
    /\ accepted = <<>>
    /\ since = "other"

\* any accessor call with an index the bound allows
Inspect ==
    \/ \E ix \in 0 .. MaxIx : callGetWord(ix)
    \/ callGetCommandLine

NextScript ==
    \/ RunStep
    \/ Inspect

SpecScript == InitScript /\ [][NextScript]_vars

\* loop() calls run() for ever and the handlers return: a short script is in
\* the stream of a sketch with one command and the built-in default handler
InitPoll == InitScript /\ echoing /\ Len(avail) <= MaxPoll

SpecPoll == InitPoll /\ [][RunStep]_vars /\ WF_vars(RunStep)

\* a sketch that registers a few commands, as setup() of the examples does
PadTo(n) ==
    /\ handlerCount >= MaxVaried
    /\ handlerCount < n
    /\ attachCmdHandler(PadCmd, PadHandler)

\* Registration of a few commands, with one-word lines typed, cancelled and
\* inspected in between
NextFrame ==
    \/ SetDefault
    \/ Register(TableNames)
    \/ PadTo(MaxFrame)
    \/ cancelCmd
    \/ Inspect
    \/ Receive(TableBytes, MaxTableLine)
    \/ runBegin
    \/ runReturn
    \/ runDefault
    \/ runEnd

SpecFrame == InitTable /\ [][NextFrame]_vars

\* One line, of one word or of a name and a parameter, is typed at a sketch
\* that has registered one or two commands, with names of every spelling up
\* to MaxName letters
InitNames ==
    /\ \E n \in MatchNames, m \in MatchNames \cup {<<>>} :
          cmds = IF m = <<>> THEN <<n>> ELSE <<n, m>>
    /\ handlers = SubSeq(<<"onEcho", PadHandler>>, 1, Len(cmds))
    /\ handlerCount = Len(cmds)
    /\ defaultHandler \in {defaultUnrecognizedCmdHandler, NULL}
    /\ echoing \in BOOLEAN
    /\ commandLine = <<>>
    /\ lastCommandLine = <<>>
    /\ newCmd = TRUE
    /\ \E w \in MatchLines : avail = Append(w, CR)
    /\ pc = "idle"
    /\ out = <<>>
    /\ called = <<>>
    /\ op = "attachCmdHandler"
    /\ ret = "true"
    /\ touched = {handlerCount - 1}
    /\ answer = <<>>
    /\ accepted = <<>>
    /\ since = "other"

\* the line is letters, digits and spaces: run() takes no other case of its switch
NextNames ==
    \/ SetDefault
    \/ runBegin
    \/ runDefault
    \/ runReturn
    \/ runEnd

SpecNames == InitNames /\ [][NextNames]_vars

----------------------------------------------------------------------------
(* Properties *)

\* run() is about to read a carriage return
NextIsCR == pc = "run" /\ avail # <<>> /\ Head(avail) = CR

\* word 0 of the line that a carriage return read now would accept
Word0 == WordOf(Trim(commandLine), 0)

Registered(w) == \E i \in 0 .. (handlerCount - 1) : ReadCmd(i) = w

Blank(s) == \A i \in DOMAIN s : s[i] = SP

NoEdgeSpace(s) == s = <<>> \/ (s[1] # SP /\ s[Len(s)] # SP)

\* s split at runs of one or more spaces, by one pass from the left
RECURSIVE SplitWords(_, _, _)
SplitWords(s, cur, acc) ==
    IF s = <<>> THEN (IF cur = <<>> THEN acc ELSE Append(acc, cur))
    ELSE IF Head(s) = SP
         THEN SplitWords(Tail(s), <<>>, IF cur = <<>> THEN acc ELSE Append(acc, cur))
         ELSE SplitWords(Tail(s), Append(cur, Head(s)), acc)

NthWord(s, i) ==
    LET ws == SplitWords(s, <<>>, <<>>)
    IN  IF i < Len(ws) THEN ws[i + 1] ELSE <<>>

\* C1: a step taken while the next byte to read is not a carriage return
\* invokes no handler, and when such a step ends run() the newCmd flag is
\* false; so input without '\r' never dispatches, however it is split over
\* run() calls.
C1_NoReturnNoDispatch ==
    [][~NextIsCR =>
          /\ called' = <<>>
          /\ (pc = "run" /\ pc' = "idle") => newCmd' = FALSE]_vars

C1_Witness ==
    /\ op = "runEnd" /\ pc = "idle"
    /\ Len(commandLine) >= 2
    /\ newCmd = FALSE /\ called = <<>>

\* C2: when the carriage return ends a line whose word 0 is the name of a
\* registered entry, exactly one handler is invoked; it is the handler of
\* an entry with that name and the call does not go through the default.
C2_MatchedDispatch ==
    [][(NextIsCR /\ op' = "runReturn" /\ Word0 # <<>> /\ Registered(Word0)) =>
          /\ Len(called') = 1
          /\ called'[1].slot \in 0 .. (handlerCount - 1)
          /\ ReadCmd(called'[1].slot) = Word0
          /\ called'[1].h = ReadHandler(called'[1].slot)]_vars

C2_Witness ==
    /\ op = "runReturn" /\ Len(called) = 1
    /\ called[1].slot >= 1
    /\ called[1].h = ReadHandler(called[1].slot)
    /\ defaultHandler # NULL

\* C3 (as claimed): an unmatched non-empty word 0 with a non-null default
\* invokes the default handler once and no table handler, and the handler
\* sees the word as getWord(0), for every table size from 0.
C3_UnmatchedGoesToDefault ==
    [][(NextIsCR /\ op' = "runReturn" /\ Word0 # <<>> /\ ~Registered(Word0)
          /\ defaultHandler # NULL) =>
          /\ Len(called') = 1
          /\ called'[1].slot = -1
          /\ called'[1].h = defaultHandler
          /\ called'[1].word0 = Word0]_vars

\* C4 (as claimed): an unmatched word 0 with a null default invokes nothing,
\* for every table size including the empty table.
C4_NullDefaultInvokesNothing ==
    [][(NextIsCR /\ op' = "runReturn" /\ ~Registered(Word0)
          /\ defaultHandler = NULL) =>
          called' = <<>>]_vars

\* C5: a terminated line that is empty or all spaces invokes no handler, and
\* process() writes nothing: the step's only output is run()'s echoed newline.
C5_BlankLineIgnored ==
    [][(NextIsCR /\ op' = "runReturn" /\ Blank(commandLine)) =>
          /\ called' = <<>>
          /\ out' = Echo(<<LF>>)]_vars

C5_Witness ==
    /\ op = "runReturn" /\ commandLine = <<>>
    /\ called = <<>> /\ out = <<LF>>
    /\ handlerCount > 0 /\ defaultHandler # NULL

\* C6: attachCmdHandler on a full table returns false and changes no part of
\* the table; below capacity it returns true and handlerCount grows by one.
C6_AttachAtCapacity ==
    [][op' = "attachCmdHandler" =>
          IF handlerCount = CMD_MAX_HANDLERS
          THEN ret' = "false" /\ UNCHANGED <<handlers, cmds, handlerCount>>
          ELSE ret' = "true" /\ handlerCount' = handlerCount + 1]_vars

C6_Witness ==
    /\ op = "attachCmdHandler" /\ ret = "false"
    /\ handlerCount = CMD_MAX_HANDLERS

\* C7: handlerCount stays within 0 .. capacity and no step reads or writes a
\* table slot outside 0 .. capacity - 1.
C7_TableWithinCapacity ==
    /\ handlerCount \in 0 .. CMD_MAX_HANDLERS
    /\ touched \subseteq Slots

C7_Witness ==
    /\ op = "runReturn"
    /\ handlerCount = CMD_MAX_HANDLERS
    /\ touched = Slots

\* C8: after a line is accepted getWord(i) is the i-th piece of the line
\* split at runs of spaces, empty when there are not that many pieces, and
\* it holds no space.
C8_GetWordSplits ==
    op = "runReturn" =>
        \A i \in 0 .. MaxIx :
            /\ getWord(i) = NthWord(getCommandLine, i)
            /\ \A k \in DOMAIN getWord(i) : getWord(i)[k] # SP

C8_Witness ==
    /\ op = "runReturn"
    /\ getWord(0) # <<>> /\ getWord(1) # <<>>
    /\ getWord(0) # getWord(1)
    /\ getWord(2) = <<>>

\* C9 (as claimed): whenever getCommandLine() can be called, between run()
\* calls or inside a handler, its result neither begins nor ends with a space.
C9_CommandLineTrimmed ==
    /\ pc = "idle" => NoEdgeSpace(getCommandLine)
    /\ \A k \in DOMAIN called : NoEdgeSpace(called[k].line)

\* C10: a backspace read with a non-empty buffer removes the buffer's last
\* character and leaves the rest, the last line, the flag and the table as
\* they were; read with an empty buffer it changes neither buffer and
\* echoes nothing.
C10_Backspace ==
    [][op' = "runBackspace" =>
          IF commandLine # <<>>
          THEN /\ commandLine = Append(commandLine', commandLine[Len(commandLine)])
               /\ UNCHANGED <<lastCommandLine, newCmd, table, defaultHandler>>
          ELSE /\ UNCHANGED <<commandLine, lastCommandLine, newCmd, table,
                              defaultHandler>>
               /\ out' = <<>>]_vars

\* "ab\bc\r" midway: the backspace has taken the second letter off
C10_Witness ==
    /\ op = "runBackspace"
    /\ commandLine = LetterA
    /\ avail = LetterA \o <<CR>>

\* two invocations go through the same table entry, or both to the default
\* handler, and reach the same function; a call through a slot never written
\* goes wherever the content of that slot leads, both times
SameHandler(c, d) ==
    /\ c.slot = d.slot
    /\ (c.slot = -1 \/ c.slot < handlerCount) => c.h = d.h

\* C11: when a non-blank line L was accepted and a handler invoked for it,
\* and the bytes read since are a 0x04 and then a carriage return, whether
\* by one run() call or by several, the carriage return accepts the trimmed
\* L again and invokes the same handler once more.
C11_RecallRepeats ==
    [][(since = "recalled" /\ accepted # <<>> /\ accepted[1].calls # <<>>
            /\ op' = "runReturn")
          => /\ commandLine' = accepted[1].line
             /\ Len(called') = 1
             /\ called'[1].line = accepted[1].line
             /\ SameHandler(called'[1], accepted[1].calls[1])]_vars

\* the recalled line was accepted and its handler invoked a second time
C11_Witness ==
    /\ since = "repeated"
    /\ op = "runReturn"
    /\ called # <<>>
    /\ called[1].h \in UserHandlers
    /\ called[1].line = lastCommandLine
    /\ out = Echo(<<LF>>)

\* C12: a 0x04 read while the buffer is not empty, or while the last-line
\* buffer is empty, leaves the buffer, the last-line buffer and newCmd as
\* they were and writes nothing to the stream.
C12_CtrlDIgnored ==
    [][(op' = "runCtrlD" /\ (commandLine # <<>> \/ lastCommandLine = <<>>))
          => /\ UNCHANGED <<commandLine, lastCommandLine, newCmd>>
             /\ out' = <<>>]_vars

\* a 0x04 was read behind typed input while another line could be recalled
C12_Witness ==
    /\ op = "runCtrlD"
    /\ echoing
    /\ commandLine # <<>>
    /\ lastCommandLine # <<>>
    /\ commandLine # lastCommandLine
    /\ out = <<>>

\* C13: the last-line buffer changes only in the run() call that follows an
\* accepted line, and then to that line; no other operation, cancelCmd()
\* followed by run() included, changes what a later 0x04 recalls.
C13_LastLineIsLastAccepted ==
    [][lastCommandLine' # lastCommandLine
          => /\ op' = "runBegin"
             /\ JustAccepted
             /\ lastCommandLine' = commandLine]_vars

\* what a buffer can hold after one byte c was read with cur in it, when
\* nothing but cur and c goes into it
ReadInto(cur, c) ==
    {cur, SubSeq(cur, 1, Len(cur) - 1), Append(cur, c), Append(cur, SP), Trim(cur)}

\* C14: cancelCmd() invokes no handler and writes nothing; from then until
\* the next run() call newCmd stays set and no handler is invoked; that run()
\* call emits the prompt when echoing and empties the buffer; and from there
\* each byte read puts into the buffer nothing but itself (a space for a
\* tab), except a 0x04 that recalls into the empty buffer.
C14_CancelDiscards ==
    [][/\ op' = "cancelCmd" => (called' = <<>> /\ out' = <<>> /\ newCmd')
       /\ (newCmd /\ pc = "idle" /\ op' # "runBegin") => (newCmd' /\ called' = <<>>)
       /\ (newCmd /\ op' = "runBegin")
             => (out' = Echo(CMD_PROMPT) /\ commandLine' = <<>> /\ called' = <<>>)
       /\ (pc = "run" /\ ~(op' = "runCtrlD" /\ commandLine = <<>>))
             => IF avail = <<>> THEN UNCHANGED commandLine
                ELSE commandLine' \in ReadInto(commandLine, Head(avail))]_vars

\* run() has started over after a cancelCmd(): what was typed and cancelled
\* is not a trimmed line, so it was never accepted
C14_Witness ==
    /\ op = "runBegin"
    /\ echoing
    /\ out = CMD_PROMPT
    /\ commandLine = <<>>
    /\ ~NoEdgeSpace(lastCommandLine)

\* C15: no step invokes more than one handler, a step that invokes one ends
\* the run() call, and the step that reads a carriage return consumes that
\* byte alone and ends the run() call: the bytes behind it stay in the
\* stream, in order, for the next run() call.
C15_OneLinePerRun ==
    [][/\ Len(called') <= 1
       /\ called' # <<>> => (pc = "run" /\ pc' # "run")
       /\ op' = "runReturn"
             => /\ NextIsCR
                /\ pc' # "run"
                /\ avail' = Tail(avail)]_vars

\* run() has returned from an accepted line with bytes, a second carriage
\* return among them, left in the stream
C15_Witness ==
    /\ op = "runReturn"
    /\ pc = "idle"
    /\ called # <<>>
    /\ Len(avail) >= 2
    /\ \E i \in DOMAIN avail : avail[i] = CR

Holds(s, c) == \E i \in DOMAIN s : s[i] = c

\* C16: in every reachable state neither the line buffer nor the last-line
\* buffer holds a carriage return.
C16_NoReturnStored == ~Holds(commandLine, CR) /\ ~Holds(lastCommandLine, CR)

\* an accepted line has been recalled by 0x04
C16_Witness ==
    /\ op = "runCtrlD"
    /\ commandLine # <<>>
    /\ commandLine = lastCommandLine
    /\ since = "recalled"

\* C17: a tab read appends exactly one space to the buffer and no tab, and
\* the words of an accepted line are its pieces between spaces whether the
\* spaces came from tabs or not: "a<tab>b" is accepted with words a, b and
\* an empty third word.
C17_TabIsSpace ==
    [][/\ op' = "runTab"
             => /\ commandLine' = Append(commandLine, SP)
                /\ ~Holds(commandLine', TAB)
                /\ UNCHANGED <<lastCommandLine, newCmd, table>>
       /\ op' = "runReturn"
             => \A i \in 0 .. MaxIx :
                   WordOf(commandLine', i) = NthWord(commandLine', i)]_vars

\* the script a <tab> A <return> has been accepted
C17_Witness ==
    /\ op = "runReturn"
    /\ commandLine = LetterA \o <<SP>> \o LetterUpperA
    /\ getWord(0) = LetterA
    /\ getWord(1) = LetterUpperA
    /\ getWord(2) = <<>>
    /\ called # <<>>
    /\ called[1].word0 = LetterA

\* C18: a line feed read changes neither buffer, nor newCmd, nor the
\* command table or default handler, invokes nothing and writes nothing.
C18_LineFeedIgnored ==
    [][op' = "runNewline"
          => /\ UNCHANGED <<commandLine, lastCommandLine, newCmd, table, defaultHandler>>
             /\ out' = <<>>
             /\ called' = <<>>]_vars

\* the line feed of a "\r\n" was read at the start of the following line
C18_Witness ==
    /\ op = "runNewline"
    /\ commandLine = <<>>
    /\ lastCommandLine # <<>>
    /\ ~newCmd
    /\ echoing
    /\ out = <<>>

\* C19: after an accepted line every getCommandLine() call returns that
\* line and every getWord(i) call its i-th word, whatever accessor calls
\* were made before, and the call leaves the buffer, the last-line buffer,
\* newCmd, the command table and the default handler as they were.
C19_AccessorsPure ==
    [][(op' \in {"getWord", "getCommandLine"})
          => /\ UNCHANGED <<commandLine, lastCommandLine, newCmd, table, defaultHandler>>
             /\ accepted # <<>>
             /\ Len(answer') = 1
             /\ answer'[1].val = IF answer'[1].fn = "getWord"
                                 THEN NthWord(accepted[1].line, answer'[1].ix)
                                 ELSE accepted[1].line]_vars

\* getWord(1) was called right after another accessor call on a line of two words
C19_Witness ==
    /\ op = "getWord"
    /\ answer[1].again
    /\ answer[1].ix = 1
    /\ answer[1].val = LetterUpperA
    /\ accepted # <<>>
    /\ accepted[1].line = LetterA \o <<SP>> \o LetterUpperA

\* the entries registered under the name w
EntriesOf(w) == {i \in 0 .. (handlerCount - 1) : ReadCmd(i) = w}

\* C20: a carriage return read with a non-empty word 0 that is a registered
\* name invokes exactly the handler of the earliest entry registered under
\* that name, however many later entries carry the same name.
C20_EarliestWins ==
    [][(op' = "runReturn" /\ Word0 # <<>> /\ EntriesOf(Word0) # {})
          => LET first == CHOOSE i \in EntriesOf(Word0) : \A j \in EntriesOf(Word0) : i <= j
             IN  /\ Len(called') = 1
                 /\ called'[1].slot = first
                 /\ called'[1].h = ReadHandler(first)]_vars

\* the first of several entries of one name was invoked, and a later entry
\* of that name has another handler
C20_Witness ==
    /\ op = "runReturn"
    /\ Len(called) = 1
    /\ called[1].slot = 0
    /\ handlerCount = CMD_MAX_HANDLERS
    /\ \E i \in EntriesOf(called[1].word0) : i > 0 /\ ReadHandler(i) # called[1].h

IsPrefix(p, s) == Len(p) <= Len(s) /\ SubSeq(s, 1, Len(p)) = p

\* w is not the name n but differs from it only in letter case, or is the
\* beginning of it, or begins with it
NearMiss(w, n) ==
    /\ w # n
    /\ Lower(w) = Lower(n) \/ IsPrefix(w, n) \/ IsPrefix(n, w)

\* the invocation, if any, of the default handler for the accepted line
ToDefault ==
    IF defaultHandler = NULL THEN called = <<>>
    ELSE /\ Len(called) = 1
         /\ called[1].slot = -1
         /\ called[1].h = defaultHandler

\* C21: after a line is accepted whose word 0 is a near miss of a
\* registered name (another letter case, a proper prefix, a proper
\* extension), no invocation went through that entry; and if word 0 is
\* exactly equal to no registered name, the line went to the default handler.
C21_ExactMatchOnly ==
    (op = "runReturn" /\ getWord(0) # <<>>)
       => /\ \A i \in 0 .. (handlerCount - 1) :
                NearMiss(getWord(0), ReadCmd(i))
                   => \A k \in DOMAIN called : called[k].slot # i
          /\ (handlerCount > 0 /\ EntriesOf(getWord(0)) = {}) => ToDefault

\* a word that is a proper prefix of one name and differs from another only
\* in case went to the built-in default handler
C21_Witness ==
    /\ op = "runReturn"
    /\ handlerCount = 2
    /\ ReadCmd(0) = LetterA \o LetterUpperA
    /\ ReadCmd(1) = LetterUpperA
    /\ getWord(0) = LetterA
    /\ Len(called) = 1
    /\ called[1].h = defaultUnrecognizedCmdHandler

\* C22: on an object whose default handler is still the built-in one, an
\* accepted line whose non-empty word 0 is no registered name makes the
\* step write, after run()'s echoed newline, the Unknown command message
\* quoting word 0.
C22_BuiltInDefault ==
    (/\ op = "runReturn"
     /\ defaultHandler = defaultUnrecognizedCmdHandler
     /\ getWord(0) # <<>>
     /\ EntriesOf(getWord(0)) = {})
       => out = Echo(<<LF>>) \o UnknownHead \o getWord(0) \o UnknownTail

\* C23: only attachDefaultCmdHandler changes the default handler, the call
\* changes neither the command table nor the buffers, and once a call has
\* installed a handler of the sketch, a carriage return read with a
\* non-empty word 0 that is no registered name invokes exactly the handler
\* installed last.
C23_DefaultReplaced ==
    [][/\ defaultHandler' # defaultHandler => op' = "attachDefaultCmdHandler"
       /\ op' = "attachDefaultCmdHandler" => UNCHANGED <<table, buffers>>
       /\ (/\ op' = "runReturn"
           /\ defaultHandler \notin {NULL, defaultUnrecognizedCmdHandler}
           /\ Word0 # <<>>
           /\ EntriesOf(Word0) = {})
             => /\ Len(called') = 1
                /\ called'[1].slot = -1
                /\ called'[1].h = defaultHandler]_vars

C25_LookupIsDispatch ==
    (op = "getHandlerFor" /\ answer[1].arg # <<>>)
       => LET name == answer[1].arg
              h == answer[1].val
          IN  /\ called = <<>>
              /\ h = IF EntriesOf(name) = {} THEN defaultHandler
                      ELSE ReadHandler(CHOOSE i \in EntriesOf(name) :
                                          \A j \in EntriesOf(name) : i <= j)
              /\ \A calls \in Dispatch(name) :
                    IF h = NULL THEN calls = <<>>
                    ELSE Len(calls) = 1 /\ calls[1].h = h

\* C26: newCmd is set after construction, by every carriage return consumed
\* and by every cancelCmd(), and by nothing else; a run() call that starts
\* with it set writes the prompt if echoing, saves the buffer as the last
\* line, empties the buffer and clears the flag, all before a byte is read;
\* a run() call that starts with it clear writes nothing on entry and keeps
\* both buffers; and no other step writes the prompt.
C26_PromptOnNewLine ==
    [][/\ op = "construct" => newCmd
       /\ (op' = "cancelCmd" \/ (op' = "runReturn" /\ pc' # "crashed")) => newCmd'
       /\ (newCmd' /\ ~newCmd) => op' \in {"cancelCmd", "runReturn"}
       /\ op' = "runBegin"
             => /\ avail' = avail
                /\ ~newCmd'
                /\ IF newCmd
                   THEN /\ out' = Echo(CMD_PROMPT)
                        /\ lastCommandLine' = commandLine
                        /\ commandLine' = <<>>
                   ELSE /\ out' = <<>>
                        /\ UNCHANGED buffers
       /\ (echoing /\ out' = CMD_PROMPT) => (op' = "runBegin" /\ newCmd)]_vars

\* the first run() call after an accepted line has written the prompt with
\* a byte waiting unread
C26_Witness ==
    /\ op = "runBegin"
    /\ echoing
    /\ out = CMD_PROMPT
    /\ since = "fresh"
    /\ lastCommandLine # <<>>
    /\ commandLine = <<>>
    /\ avail # <<>>

\* C27: inside a run() call a step is always possible without a byte
\* arriving; with bytes available the step reads exactly one of them, with
\* none available it reads nothing and is the return of run(); so a run()
\* call ends after at most as many reads as bytes were available.
C27_RunNeverWaits ==
    [][pc = "run"
          => /\ ENABLED RunStep
             /\ IF avail = <<>>
                THEN op' = "runEnd" /\ pc' = "idle" /\ avail' = <<>>
                ELSE /\ avail' = Tail(avail)
                     /\ op' # "runEnd"
                     /\ pc' \in {"run", "idle", "crashed"}]_vars

\* run() was called again with a line half typed and nothing available: its
\* entry block is done and its only step is its return
C27_Witness ==
    /\ op = "runBegin"
    /\ pc = "run"
    /\ avail = <<>>
    /\ commandLine # <<>>
    /\ ~newCmd
    /\ ENABLED runEnd

\* C28: every handler is invoked with newCmd already set.
C28_FlagSetBeforeHandler == \A k \in DOMAIN called : called[k].flag

\* C28, amended: every handler is invoked with newCmd still clear; the flag
\* is set once the handler has returned, in the step that ends the run()
\* call, and stays clear if the call never returns.
C28_FlagSetAfterHandler ==
    /\ \A k \in DOMAIN called : ~called[k].flag
    /\ (op = "runReturn" /\ pc # "crashed") => (newCmd /\ pc = "idle")
    /\ pc = "crashed" => ~newCmd

\* a handler was invoked for an accepted line and run() has returned
C28_Witness ==
    /\ op = "runReturn"
    /\ pc = "idle"
    /\ Len(called) = 1
    /\ called[1].h \in UserHandlers
    /\ ~called[1].flag
    /\ newCmd

\* the buffer after the byte c is read with cur in it and last as the last
\* line: only a 0x04 read with an empty buffer brings the last line in
Edited(cur, last, c) ==
    IF c = CTRLD THEN (IF cur = <<>> THEN last ELSE cur)
    ELSE IF c = BS THEN SubSeq(cur, 1, Len(cur) - 1)
    ELSE IF c = CR THEN Trim(cur)
    ELSE IF c = LF THEN cur
    ELSE IF c = TAB THEN Append(cur, SP)
    ELSE Append(cur, c)

\* C29: the first run() call after a terminator or a cancelCmd() empties the
\* buffer; from there the buffer changes only when a byte is read, and then
\* to what the buffer and that byte alone determine, the last line coming in
\* only through a 0x04 read with an empty buffer; outside run() the buffer
\* does not change.  So an accepted line holds nothing of the line before
\* it unless it was recalled.
C29_LineFromNewBytes ==
    [][/\ (op' = "runBegin" /\ newCmd) => commandLine' = <<>>
       /\ (op' = "runBegin" /\ ~newCmd) => commandLine' = commandLine
       /\ (pc = "run" /\ avail' # avail /\ Len(avail') < Len(avail))
             => commandLine' = Edited(commandLine, lastCommandLine, Head(avail))
       /\ (Len(avail') >= Len(avail) /\ op' # "runBegin")
             => commandLine' = commandLine]_vars

\* a line was typed and accepted after another line, without a recall
C29_Witness ==
    /\ op = "runReturn"
    /\ since = "accepted"
    /\ Len(called) = 1
    /\ lastCommandLine # <<>>
    /\ commandLine # <<>>
    /\ commandLine # lastCommandLine

\* what run() itself prints for the byte c read with cur in the buffer and
\* last as the last line, when echoing
Prescribed(cur, last, c) ==
    IF c = BS THEN (IF cur # <<>> THEN BackErase ELSE <<>>)
    ELSE IF c = CR THEN <<LF>>
    ELSE IF c = LF THEN <<>>
    ELSE IF c = TAB THEN <<SP>>
    ELSE IF c = CTRLD THEN (IF cur = <<>> /\ last # <<>> THEN last ELSE <<>>)
    ELSE <<c>>

\* C30: with echo enabled, the step that reads a byte writes exactly the
\* echo of that byte: "\b \b" for a backspace with a non-empty buffer, "\n"
\* for '\r' (followed only by what the invoked handler produced), a space
\* for a tab, the recalled line for a 0x04 that recalls, the byte itself for
\* any other byte, and nothing for '\n', for a backspace with an empty buffer
\* and for a 0x04 that recalls nothing.
C30_EchoPerByte ==
    [][(echoing /\ pc = "run" /\ avail # <<>> /\ avail' = Tail(avail))
          => out' = Prescribed(commandLine, lastCommandLine, Head(avail))
                      \o (IF Head(avail) = CR THEN HandlerOutput(called') ELSE <<>>)]_vars

\* with echo enabled a 0x04 recalled the last line and it was printed
C30_Witness ==
    /\ echoing
    /\ op = "runCtrlD"
    /\ out # <<>>
    /\ out = lastCommandLine
    /\ commandLine = lastCommandLine

\* the buffers and the flag a step of run() or cancelCmd() leaves, and the
\* handlers it may invoke, written without the echo setting: from is the
\* state before the step as [line, last, flag], c the byte read
EchoBlind(step, from, c) ==
    IF step = "runBegin"
    THEN IF from.flag
         THEN {[line |-> <<>>, last |-> from.line, flag |-> FALSE, calls |-> <<>>]}
         ELSE {[line |-> from.line, last |-> from.last, flag |-> FALSE, calls |-> <<>>]}
    ELSE IF step = "cancelCmd"
    THEN {[line |-> from.line, last |-> from.last, flag |-> TRUE, calls |-> <<>>]}
    ELSE IF step = "runEnd"
    THEN {[line |-> from.line, last |-> from.last, flag |-> from.flag, calls |-> <<>>]}
    ELSE IF step = "runReturn"
    THEN {[line |-> Trim(from.line), last |-> from.last, flag |-> b, calls |-> calls] :
             b \in BOOLEAN, calls \in Dispatch(Trim(from.line))}
    ELSE {[line |-> Edited(from.line, from.last, c), last |-> from.last,
           flag |-> from.flag, calls |-> <<>>]}

\* C31: with echo disabled, run() and cancelCmd() write nothing of their
\* own: the only bytes a step writes are those of the handler invoked on a
\* '\r'.  And with echo enabled or not, the buffers, the flag and the
\* handlers invoked after a step of run() or cancelCmd() are those the
\* state before it and the byte read determine without the echo setting.
C31_SilentWithoutEcho ==
    [][op' \in {"runBegin", "runEnd", "cancelCmd", "runBackspace", "runReturn",
                "runNewline", "runTab", "runCtrlD", "runDefault"}
          => /\ ~echoing => out' = (IF op' = "runReturn" THEN HandlerOutput(called')
                                                          ELSE <<>>)
             /\ echoing' = echoing
             /\ [line |-> commandLine', last |-> lastCommandLine', flag |-> newCmd',
                 calls |-> called']
                  \in EchoBlind(op', [line |-> commandLine, last |-> lastCommandLine,
                                      flag |-> newCmd],
                                IF avail # <<>> THEN Head(avail) ELSE 0)]_vars

\* with echo disabled a line was typed and accepted, its handler wrote its
\* message and run() wrote nothing before it
C31_Witness ==
    /\ ~echoing
    /\ op = "runReturn"
    /\ Len(called) = 1
    /\ commandLine # <<>>
    /\ out = HandlerOutput(called)
    /\ out # <<>>

\* C32: a successful attachCmdHandler writes slot handlerCount only: the
\* pairs registered before keep their slots, names and handlers, and the
\* default handler stays; run() with process(), cancelCmd(), getWord() and
\* getCommandLine() change neither handlerCount nor any name or handler of
\* the table nor the default handler.
C32_TableAppendOnly ==
    [][/\ (op' = "attachCmdHandler" /\ ret' = "true")
             => /\ handlerCount' = handlerCount + 1
                /\ touched' = {handlerCount}
                /\ SubSeq(cmds', 1, handlerCount) = cmds
                /\ SubSeq(handlers', 1, handlerCount) = handlers
                /\ defaultHandler' = defaultHandler
       /\ op' \in {"runBegin", "runEnd", "runBackspace", "runReturn", "runNewline",
                   "runTab", "runCtrlD", "runDefault", "cancelCmd", "getWord",
                   "getCommandLine"}
             => UNCHANGED <<handlers, cmds, handlerCount, defaultHandler>>]_vars

\* a third command was registered after two with another name and handler
C32_Witness ==
    /\ op = "attachCmdHandler" /\ ret = "true"
    /\ handlerCount = 3
    /\ touched = {2}
    /\ cmds = <<LetterUpperA, PadCmd, PadCmd>>
    /\ handlers = <<"onHelp", PadHandler, PadHandler>>

\* the buffers as the next byte read will find them: with the flag set the
\* entry block of run() is still to move the line to the last line
Pending(line, last, flag) ==
    IF flag THEN [line |-> <<>>, last |-> line]
    ELSE [line |-> line, last |-> last]

\* C33: without cancelCmd() and registrations, the buffers the next byte will
\* find change only when a byte is read, and then to what they and the byte
\* determine: entering run(), leaving it with nothing available and bytes
\* arriving leave them alone and invoke nothing.  A carriage return invokes
\* what dispatch chooses for the trimmed line so found, and that line is the
\* one the handler observes.  So the invocations and their lines are those
\* of the bytes fed, however the bytes are split over run() calls.
C33_SplitIndependent ==
    [][LET now == Pending(commandLine, lastCommandLine, newCmd)
           next == Pending(commandLine', lastCommandLine', newCmd')
       IN  /\ op' \in {"runBegin", "runEnd", "StreamReceive"}
                 => next = now /\ called' = <<>>
           /\ (op' \in {"runBackspace", "runNewline", "runTab", "runCtrlD", "runDefault"})
                 => /\ next = [line |-> Edited(now.line, now.last, Head(avail)),
                               last |-> now.last]
                    /\ called' = <<>>
           /\ (op' = "runReturn")
                 => /\ Head(avail) = CR
                    /\ called' \in Dispatch(Trim(now.line))
                    /\ \A k \in DOMAIN called' : called'[k].line = Trim(now.line)
                    /\ pc' # "crashed"
                          => next = [line |-> <<>>, last |-> Trim(now.line)]]_vars

\* run() is entered with a letter already in the buffer and the carriage
\* return waiting: the bytes of the line are read by more than one run() call
C33_Witness ==
    /\ op = "runBegin" /\ pc = "run"
    /\ ~newCmd
    /\ commandLine = LetterA
    /\ avail = <<CR>>
    /\ handlerCount > 0

\* the carriage returns waiting in the stream
RECURSIVE Returns(_)
Returns(s) ==
    IF s = <<>> THEN 0
    ELSE (IF Head(s) = CR THEN 1 ELSE 0) + Returns(Tail(s))

\* C34: with run() called for ever, a registered command and the built-in
\* default handler, every carriage return waiting in the stream is
\* eventually read.  The bytes are read from the front of the stream one at
\* a time, so the lines are dispatched in the order of their terminators;
\* the step that reads a carriage return is the dispatch, and it invokes
\* exactly one handler if the line is not blank and none if it is.
C34_EveryLineDispatched ==
    /\ \A n \in 1 .. (MaxPoll + 1) : (Returns(avail) = n) ~> (Returns(avail) < n)
    /\ [][/\ avail' # avail => avail' = Tail(avail)
          /\ (avail' # avail /\ Head(avail) = CR)
                => /\ op' = "runReturn"
                   /\ Len(called') = (IF Trim(commandLine) = <<>> THEN 0 ELSE 1)
                   /\ \A k \in DOMAIN called' : called'[k].line = Trim(commandLine)
          /\ (avail' = avail \/ Head(avail) # CR) => called' = <<>>]_vars

\* two lines were fed and the second has been dispatched after the first
C34_Witness ==
    /\ op = "runReturn"
    /\ avail = <<>>
    /\ Len(called) = 1
    /\ commandLine = LetterUpperA
    /\ lastCommandLine = LetterA

\* C35: a run() call entered with newCmd clear does nothing on entry, and a
\* run() call that finds no byte available returns at once: neither step
\* changes the buffer, the last line, the flag, the table, the default
\* handler or the stream's unread bytes, writes anything or invokes a
\* handler.  A run() call made of these two steps leaves the object as it
\* found it.
C35_IdlePollChangesNothing ==
    [][((op' = "runBegin" /\ ~newCmd) \/ op' = "runEnd")
          => /\ UNCHANGED <<commandLine, lastCommandLine, newCmd, handlers, cmds,
                            handlerCount, defaultHandler, echoing, avail>>
             /\ out' = <<>>
             /\ called' = <<>>
             /\ touched' = {}
             /\ op' = "runEnd" => (avail = <<>> /\ pc' = "idle")]_vars

\* with echo enabled run() was called after the entry block had been done by
\* an earlier call, with nothing typed and nothing available: no prompt
C35_Witness ==
    /\ op = "runBegin" /\ pc = "run"
    /\ echoing
    /\ ~newCmd
    /\ avail = <<>>
    /\ commandLine = <<>>
    /\ lastCommandLine # <<>>
    /\ out = <<>>

\* the bytes run() interprets and the claim says are never stored
Interpreted == {BS, LF, TAB, CTRLD}

\* C36: neither the buffer nor the last line ever holds a backspace, a line
\* feed, a tab or a 0x04.
C36_NoControlByteStored ==
    /\ \A i \in DOMAIN commandLine : commandLine[i] \notin Interpreted
    /\ \A i \in DOMAIN lastCommandLine : lastCommandLine[i] \notin Interpreted

\* a 0x04 was read with a line typed and a last line kept: it recalled
\* nothing and both buffers hold text only
C36_Witness ==
    /\ op = "runCtrlD"
    /\ out = <<>>
    /\ commandLine # <<>>
    /\ lastCommandLine # <<>>

\* a blank line was accepted and run() has been entered since, with no byte
\* read yet
AfterBlankLine == since = "fresh" /\ accepted # <<>> /\ accepted[1].line = <<>>

\* C37: a blank line that was terminated invoked nothing and left an empty
\* buffer, which the entry block of the next run() call makes the last line,
\* whatever line was accepted before it: from there the last line is empty,
\* a 0x04 read next recalls and prints nothing, and the last line changes
\* again only by the entry block after a later carriage return.
C37_BlankLineReplacesLast ==
    [][/\ (op' = "runReturn" /\ Trim(commandLine) = <<>>)
             => commandLine' = <<>> /\ called' = <<>>
       /\ (JustAccepted /\ accepted # <<>> /\ accepted[1].line = <<>>
             /\ op' = "runBegin")
             => (lastCommandLine' = <<>> /\ commandLine' = <<>> /\ since' = "fresh")
       /\ AfterBlankLine => lastCommandLine = <<>>
       /\ (AfterBlankLine /\ op' = "runCtrlD")
             => /\ commandLine' = <<>>
                /\ lastCommandLine' = <<>>
                /\ out' = <<>>
       /\ lastCommandLine' # lastCommandLine
             => (op' = "runBegin" /\ newCmd /\ lastCommandLine' = commandLine)]_vars

\* the line "a" was accepted, then a blank line; a 0x04 is the next byte:
\* the last line is still "a" and the entry block of run() will empty it
C37_Witness ==
    /\ op = "runReturn"
    /\ called = <<>>
    /\ commandLine = <<>>
    /\ lastCommandLine = LetterA
    /\ avail = <<CTRLD>>
    /\ ENABLED (runBegin /\ lastCommandLine' = <<>>)

====
